---- MODULE Spec2Model ----
(***************************************************************************)
(* Model of the resilient page-processing pipeline of                      *)
(* src/src/pdf_context_narrator/processor.py: PDFProcessor.process_pdf    *)
(* with its page stream, batch checkpoints, cancellation flag and          *)
(* checkpoint-based resume/force handling.                                 *)
(*                                                                         *)
(* One document and one checkpoint file are modelled.  Successive runs     *)
(* (each a call of process_pdf on a PDFProcessor) work on the same file,   *)
(* so every checkpoint a run finds on disk was written by an earlier run.  *)
(***************************************************************************)
EXTENDS Integers, Sequences, FiniteSets, TLC

\* ---------------------------------------------------------------- bounds
MaxPages == 3    \* documents have 0..MaxPages pages
MaxBatch == 2    \* ProcessorConfig.batch_size ranges over 1..MaxBatch
MaxRuns  == 3    \* process_pdf is called at most MaxRuns times in a behaviour
MaxNameLen == 2  \* a file name has 1..MaxNameLen pieces (see NamePieces)

\* ------------------------------------------------------------- the state
VARIABLES
    docStatus,      \* what process_pdf found at the document path (see DocumentStatus)
    doc,            \* the document: its pages, each "text" or "raises" (extract_text raises)
    disk,           \* the checkpoint file of the document: NoFile, Corrupt or a CheckpointState
    pc,             \* position of the processor (see PcValues)
    config,         \* ProcessorConfig of the constructed processor
    interrupted,    \* PDFProcessor._interrupted
    start_page,     \* process_pdf: start_page
    results,        \* process_pdf: results
    metadata,       \* process_pdf: metadata
    total_pages,    \* process_pdf: total_pages
    page_num,       \* _stream_pages: page_num of the generator
    inner_results,  \* _process_streaming / _process_with_multiprocessing: results
    batch_results,  \* _process_streaming: batch_results
    summary,        \* the dictionary process_pdf returned, or NoSummary
    loaded,         \* history: the state _load_checkpoint gave this run, or NoState
    invoked,        \* history: the page indices _process_page was called on in this run
    runs,           \* history: number of process_pdf calls so far
    saveFailed,     \* history: some _save_checkpoint of this run failed
    saves,          \* history: the states passed to _save_checkpoint in this run, in order
    comparing,      \* history switch: the behaviour keeps fresh runs' summaries to compare
    lastFresh,      \* history: the summary of the last completed resume=false run
    diskBefore,     \* history: the kind of checkpoint file the current run started with
    pdf_paths,      \* two document paths given to _get_checkpoint_path
    checkpoint_paths,   \* what _get_checkpoint_path returned for each of them
    pdf_files,      \* ingest: len(pdf_files), 0 when no directory is being ingested
    file_idx,       \* ingest: iterations of the for loop that are over
    calls,          \* history: process_pdf_file calls the for loop has made
    success_count,  \* ingest: success_count
    error_count,    \* ingest: error_count
    interrupted_count,  \* ingest: interrupted_count
    other,          \* a second PDFProcessor of the process and its call, or NoOther
    newest          \* the processor of pc, config, ... was constructed after other

vars == <<docStatus, doc, disk, pc, config, interrupted, start_page, results, metadata,
          total_pages, page_num, inner_results, batch_results, summary,
          loaded, invoked, runs, saveFailed, saves,
          comparing, lastFresh, diskBefore, pdf_paths, checkpoint_paths,
          pdf_files, file_idx, calls, success_count, error_count, interrupted_count,
          other, newest>>

\* the variables of the comparison of fresh runs, of the checkpoint paths and
\* of the directory loop of ingest
freshVars == <<comparing, lastFresh, diskBefore>>
pathVars == <<pdf_paths, checkpoint_paths>>
driverVars == <<pdf_files, file_idx, calls, success_count, error_count,
                interrupted_count>>
twoVars == <<other, newest>>

memory == <<start_page, results, metadata, total_pages, page_num,
            inner_results, batch_results>>

\* records, so that they compare with the records they stand in for
NoFile    == [file |-> "absent"]        \* no checkpoint file
Corrupt   == [file |-> "unreadable"]    \* a file pickle.load fails on
NoState   == [state |-> "None"]         \* _load_checkpoint returned None
NoSummary == [summary |-> "None"]       \* process_pdf has not returned
NoConfig  == [config |-> "None"]        \* no processor constructed
NoOther   == [processor |-> "None"]     \* no second processor

PageKinds == {"text", "raises"}

PcValues == {"idle", "ready", "stream", "body", "boundary", "flush",
             "finish", "return", "done", "raised"}

Running == pc \in {"stream", "body", "boundary", "flush", "finish", "return"}

\* ------------------------------------------------------- pure operators

\* Python's floor division for non-negative operands.
FloorDiv(a, b) == a \div b

\* CheckpointState(pdf_path, total_pages, processed_pages, checkpoint_batch,
\* results, metadata); pdf_path is the one document of the model.
CheckpointState(total, processed, batch, res, meta) ==
    [total_pages |-> total, processed_pages |-> processed,
     checkpoint_batch |-> batch, results |-> res, metadata |-> meta]

IsState(d) == d \notin {NoFile, Corrupt}

\* metadata created by process_pdf for a run that loads no state.
FreshMetadata == {"pdf_path", "pdf_name"}

\* metadata written into every checkpoint.
CheckpointMetadata == {"pdf_name"}

\* an error record that carries the 0-based index
ProcessPage_ErrorIndex(p) ==
    IF doc[p + 1] = "raises"
    THEN [page_number |-> p, error |-> TRUE]
    ELSE [page_number |-> p + 1, error |-> FALSE]

\* _process_page: the result of a page, an error record when extraction raises.
ProcessPage(p) ==
    IF doc[p + 1] = "raises"
    THEN [page_number |-> p + 1, error |-> TRUE]
    ELSE [page_number |-> p + 1, error |-> FALSE]

\* _save_checkpoint: the file after the call.  open(path, "wb") may fail
\* (file untouched) or pickle.dump may fail after the file was truncated
\* (file left unreadable); either error is logged and swallowed.
SaveOutcomes == {"ok", "open_failed", "dump_failed"}

SaveCheckpoint(state, outcome) ==
    CASE outcome = "ok"          -> state
      [] outcome = "open_failed" -> disk
      [] outcome = "dump_failed" -> Corrupt

\* a load that answers an unreadable file with an empty state
LoadCheckpoint_EmptyStateOnError ==
    IF IsState(disk) THEN disk
    ELSE IF disk = Corrupt
         THEN CheckpointState(0, 0, 0, <<>>, CheckpointMetadata)
         ELSE NoState

\* _load_checkpoint: None when the file is missing or cannot be unpickled.
LoadCheckpoint == IF IsState(disk) THEN disk ELSE NoState

\* a _clear_checkpoint that leaves the file in place
ClearCheckpoint_KeepsFile == disk

\* _clear_checkpoint: unlink the file if it exists (an unlink that fails is
\* an environment fault outside the model).
ClearCheckpoint == NoFile

\* what the file system holds at the document path when process_pdf is called:
\* a readable PDF, nothing, or a file PdfReader cannot open.
DocumentStatus == {"ok", "missing", "unreadable"}

\* a probe whose exception is swallowed: only the missing path is fatal
BeginFails_OnlyMissing(status) == status = "missing"

\* process_pdf raises FileNotFoundError when the path does not exist and
\* re-raises the probe's exception when PdfReader cannot open the file.
BeginFails(status) == status # "ok"

\* a check that forgets the force flag
CheckpointToLoad_IgnoresForce ==
    IF config.resume THEN LoadCheckpoint ELSE NoState

\* process_pdf, "Check for existing checkpoint": the state the run resumes from.
CheckpointToLoad ==
    IF config.resume /\ ~config.force THEN LoadCheckpoint ELSE NoState

\* process_pdf, "Initialize or resume state".
\* a resume that restores the results but streams from the first page again
StartPage_FromZero(state) == 0

StartPage(state) == IF state # NoState THEN state.processed_pages ELSE 0

\* a results list that is not reset between two calls on one processor
StartResults_KeepsPrevious(state) ==
    IF state # NoState THEN state.results ELSE results

StartResults(state) == IF state # NoState THEN state.results ELSE <<>>

StartMetadata(state) == IF state # NoState THEN state.metadata ELSE FreshMetadata

\* processed_pages counted from the page index and the start offset both
StreamingBoundaryState_OffsetTwice(res) ==
    CheckpointState(total_pages, start_page + page_num + 1,
                    FloorDiv(Len(res), config.batch_size),
                    res, CheckpointMetadata)

\* a boundary test that fires one page late
StreamingAtBoundary_Late == Len(batch_results) > config.batch_size

\* "Save checkpoint at batch boundaries": the test of the streaming loop.
StreamingAtBoundary == Len(batch_results) >= config.batch_size

\* "Save checkpoint at batch boundaries": the test of the workers > 1 loop.
MultiAtBoundary == Len(inner_results) % config.batch_size = 0

\* the state persisted when the loop sees the flag (streaming mode).
StreamingInterruptState ==
    CheckpointState(total_pages, page_num,
                    FloorDiv(Len(inner_results), config.batch_size),
                    inner_results \o batch_results, CheckpointMetadata)

\* the state persisted at a batch boundary (streaming mode); res is the
\* function's results list after the batch was moved into it.
StreamingBoundaryState(res) ==
    CheckpointState(total_pages, page_num + 1,
                    FloorDiv(Len(res), config.batch_size),
                    res, CheckpointMetadata)

\* processed_pages taken from the length of the function's results
MultiInterruptState_CountsResults ==
    CheckpointState(total_pages, Len(inner_results),
                    FloorDiv(Len(inner_results), config.batch_size),
                    inner_results, CheckpointMetadata)

\* the state persisted when the loop sees the flag (workers > 1).
MultiInterruptState ==
    CheckpointState(total_pages, page_num,
                    FloorDiv(Len(inner_results), config.batch_size),
                    inner_results, CheckpointMetadata)

\* the state persisted at a batch boundary (workers > 1).
MultiBoundaryState ==
    CheckpointState(total_pages, page_num + 1,
                    FloorDiv(Len(inner_results), config.batch_size),
                    inner_results, CheckpointMetadata)

\* the dictionary process_pdf returns.
Summary ==
    [metadata |-> metadata, total_pages |-> total_pages,
     processed_pages |-> Len(results), results |-> results,
     completed |-> ~interrupted]

\* ------------------------------------------------------------------ Init
Documents == UNION {[1..n -> PageKinds] : n \in 0..MaxPages}

Configs == [resume : BOOLEAN, force : BOOLEAN, workers : {1, 2},
            batch_size : 1..MaxBatch]

ProcessorInit ==
    /\ doc \in Documents
    /\ docStatus = "ok"
    /\ disk = NoFile
    /\ pc = "idle"
    /\ config = NoConfig
    /\ interrupted = FALSE
    /\ start_page = 0
    /\ results = <<>>
    /\ metadata = {}
    /\ total_pages = 0
    /\ page_num = 0
    /\ inner_results = <<>>
    /\ batch_results = <<>>
    /\ summary = NoSummary
    /\ loaded = NoState
    /\ invoked = <<>>
    /\ runs = 0
    /\ saveFailed = FALSE
    /\ saves = <<>>
    /\ other = NoOther
    /\ newest = TRUE

\* no fresh run has been kept for comparison
NoComparison ==
    /\ lastFresh = NoSummary
    /\ diskBefore = "absent"

\* no checkpoint path has been asked for
NoPaths ==
    /\ pdf_paths = <<>>
    /\ checkpoint_paths = <<>>

\* no directory is being ingested
NoDriver ==
    /\ pdf_files = 0
    /\ file_idx = 0
    /\ calls = 0
    /\ success_count = 0
    /\ error_count = 0
    /\ interrupted_count = 0

Init ==
    /\ ProcessorInit
    /\ comparing = FALSE
    /\ NoComparison
    /\ NoPaths
    /\ NoDriver

\* the kind of file a checkpoint path holds
FileKind(d) == IF d = NoFile THEN "absent"
               ELSE IF d = Corrupt THEN "unreadable" ELSE "state"

\* history: a processor that returned completed=true with resume=false is
\* left behind (a new call or a new processor); its summary is kept.
RememberFresh ==
    lastFresh' = IF comparing /\ pc = "done" /\ summary.completed /\ ~config.resume
                 THEN summary ELSE lastFresh

ResetMemory ==
    /\ start_page' = 0
    /\ results' = <<>>
    /\ metadata' = {}
    /\ total_pages' = 0
    /\ page_num' = 0
    /\ inner_results' = <<>>
    /\ batch_results' = <<>>

\* --------------------------------------------------------------- actions

\* PDFProcessor.__init__ (also through process_pdf_file): a new processor
\* with its own configuration and an unset cancellation flag.
Construct ==
    /\ pc \in {"idle", "done", "raised"}
    /\ runs < MaxRuns
    /\ \E c \in Configs : config' = c
    /\ interrupted' = FALSE
    /\ pc' = "ready"
    /\ summary' = NoSummary
    /\ loaded' = NoState
    /\ invoked' = <<>>
    /\ saveFailed' = FALSE
    /\ saves' = <<>>
    /\ ResetMemory
    /\ docStatus' = "ok"
    /\ UNCHANGED <<doc, disk, runs>>
    /\ RememberFresh
    /\ UNCHANGED <<comparing, diskBefore, pathVars, twoVars, driverVars>>

\* _signal_handler: SIGINT or SIGTERM delivered to the process while a
\* processor exists; the handler stays installed between runs.
SignalHandler ==
    /\ pc # "idle"
    /\ ~interrupted
    /\ interrupted' = TRUE
    /\ UNCHANGED <<docStatus, doc, disk, pc, config, memory, summary, loaded, invoked,
                   runs, saveFailed, saves>>
    /\ UNCHANGED <<freshVars, pathVars, twoVars, driverVars>>

\* a process_pdf that starts every call with an unset flag
ProcessPdfBegin_ResetsFlag ==
    /\ pc \in {"ready", "done", "raised"}
    /\ runs < MaxRuns
    /\ runs' = runs + 1
    /\ summary' = NoSummary
    /\ invoked' = <<>>
    /\ saveFailed' = FALSE
    /\ saves' = <<>>
    /\ \E status \in DocumentStatus :
         /\ docStatus' = status
         /\ IF BeginFails(status)
            THEN /\ loaded' = NoState
                 /\ ResetMemory
                 /\ pc' = "raised"
            ELSE /\ loaded' = CheckpointToLoad
                 /\ start_page' = StartPage(CheckpointToLoad)
                 /\ results' = StartResults(CheckpointToLoad)
                 /\ metadata' = StartMetadata(CheckpointToLoad)
                 /\ total_pages' = Len(doc)
                 /\ page_num' = start_page'
                 /\ inner_results' = <<>>
                 /\ batch_results' = <<>>
                 /\ pc' = "stream"
    /\ interrupted' = FALSE
    /\ UNCHANGED <<doc, disk, config>>
    /\ RememberFresh
    /\ diskBefore' = IF comparing THEN FileKind(disk) ELSE diskBefore
    /\ UNCHANGED <<comparing, pathVars, twoVars, driverVars>>

\* process_pdf up to the progress bar: the existence check, the optional
\* checkpoint load and the page-count probe.  status is what the file system
\* holds for the document path at the time of the call.
ProcessPdfBegin ==
    /\ pc \in {"ready", "done", "raised"}
    /\ runs < MaxRuns
    /\ runs' = runs + 1
    /\ summary' = NoSummary
    /\ invoked' = <<>>
    /\ saveFailed' = FALSE
    /\ saves' = <<>>
    /\ \E status \in DocumentStatus :
         /\ docStatus' = status
         /\ IF BeginFails(status)
            THEN /\ loaded' = NoState
                 /\ ResetMemory
                 /\ pc' = "raised"
            ELSE /\ loaded' = CheckpointToLoad
                 /\ start_page' = StartPage(CheckpointToLoad)
                 /\ results' = StartResults(CheckpointToLoad)
                 /\ metadata' = StartMetadata(CheckpointToLoad)
                 /\ total_pages' = Len(doc)
                 /\ page_num' = start_page'
                 /\ inner_results' = <<>>
                 /\ batch_results' = <<>>
                 /\ pc' = "stream"
    /\ UNCHANGED <<doc, disk, config, interrupted>>
    /\ RememberFresh
    /\ diskBefore' = IF comparing THEN FileKind(disk) ELSE diskBefore
    /\ UNCHANGED <<comparing, pathVars, twoVars, driverVars>>

\* a generator that goes on yielding pages past the last one
StreamPages_NoEnd ==
    /\ pc = "stream"
    /\ IF ~interrupted
       THEN pc' = "body"
       ELSE pc' = "flush"
    /\ UNCHANGED <<docStatus, doc, disk, config, interrupted, memory, summary, loaded,
                   invoked, runs, saveFailed, saves>>
    /\ UNCHANGED <<freshVars, pathVars, twoVars, driverVars>>

\* _stream_pages, one turn of the generator: it ends at the last page or when
\* it sees the flag, and yields (page_num, page) otherwise.
StreamPages ==
    /\ pc = "stream"
    /\ IF page_num < Len(doc) /\ ~interrupted
       THEN pc' = "body"
       ELSE pc' = "flush"
    /\ UNCHANGED <<docStatus, doc, disk, config, interrupted, memory, summary, loaded,
                   invoked, runs, saveFailed, saves>>
    /\ UNCHANGED <<freshVars, pathVars, twoVars, driverVars>>

\* a loop body that relies on the stream's flag test and has none of its own
LoopBody_NoFlagCheck ==
    /\ pc = "body"
    /\ IF config.workers > 1
       THEN /\ inner_results' = Append(inner_results, ProcessPage(page_num))
            /\ UNCHANGED batch_results
       ELSE /\ batch_results' = Append(batch_results, ProcessPage(page_num))
            /\ UNCHANGED inner_results
    /\ invoked' = Append(invoked, page_num)
    /\ pc' = "boundary"
    /\ UNCHANGED <<docStatus, doc, disk, config, interrupted, start_page, results,
                   metadata, total_pages, page_num, summary, loaded, runs,
                   saveFailed, saves>>
    /\ UNCHANGED <<freshVars, pathVars, twoVars, driverVars>>

\* the loop body up to the page result: on the flag, persist and leave the
\* loop; otherwise process the page and keep its result.
LoopBody ==
    /\ pc = "body"
    /\ IF interrupted
       THEN /\ LET state == IF config.workers > 1 THEN MultiInterruptState
                                                   ELSE StreamingInterruptState
               IN \E outcome \in SaveOutcomes :
                    /\ disk' = SaveCheckpoint(state, outcome)
                    /\ saveFailed' = (saveFailed \/ outcome # "ok")
                    /\ saves' = Append(saves, state)
            /\ pc' = "flush"
            /\ UNCHANGED <<inner_results, batch_results, invoked>>
       ELSE /\ IF config.workers > 1
               THEN /\ inner_results' = Append(inner_results, ProcessPage(page_num))
                    /\ UNCHANGED batch_results
               ELSE /\ batch_results' = Append(batch_results, ProcessPage(page_num))
                    /\ UNCHANGED inner_results
            /\ invoked' = Append(invoked, page_num)
            /\ pc' = "boundary"
            /\ UNCHANGED <<disk, saveFailed, saves>>
    /\ UNCHANGED <<docStatus, doc, config, interrupted, start_page, results, metadata,
                   total_pages, page_num, summary, loaded, runs>>
    /\ UNCHANGED <<freshVars, pathVars, twoVars, driverVars>>

\* a batch boundary whose failed save aborts the run
BatchBoundary_SaveFailureRaises ==
    /\ pc = "boundary"
    /\ \E outcome \in SaveOutcomes :
         LET atBoundary == IF config.workers > 1 THEN MultiAtBoundary
                                                 ELSE StreamingAtBoundary
             moved == IF config.workers > 1 THEN inner_results
                                            ELSE inner_results \o batch_results
             state == IF config.workers > 1 THEN MultiBoundaryState
                                            ELSE StreamingBoundaryState(moved)
         IN IF atBoundary
            THEN /\ disk' = SaveCheckpoint(state, outcome)
                 /\ saveFailed' = (saveFailed \/ outcome # "ok")
                 /\ saves' = Append(saves, state)
                 /\ inner_results' = moved
                 /\ batch_results' = <<>>
                 /\ pc' = IF outcome = "ok" THEN "stream" ELSE "raised"
            ELSE /\ pc' = "stream"
                 /\ UNCHANGED <<disk, saveFailed, saves, inner_results, batch_results>>
    /\ page_num' = page_num + 1
    /\ UNCHANGED <<docStatus, doc, config, interrupted, start_page, results, metadata,
                   total_pages, summary, loaded, invoked, runs>>
    /\ UNCHANGED <<freshVars, pathVars, twoVars, driverVars>>

\* the end of the loop body: persist at a batch boundary; the generator then
\* moves to the next page.
BatchBoundary ==
    /\ pc = "boundary"
    /\ IF config.workers > 1
       THEN /\ IF MultiAtBoundary
               THEN \E outcome \in SaveOutcomes :
                      /\ disk' = SaveCheckpoint(MultiBoundaryState, outcome)
                      /\ saveFailed' = (saveFailed \/ outcome # "ok")
                      /\ saves' = Append(saves, MultiBoundaryState)
               ELSE UNCHANGED <<disk, saveFailed, saves>>
            /\ UNCHANGED <<inner_results, batch_results>>
       ELSE IF StreamingAtBoundary
            THEN /\ inner_results' = inner_results \o batch_results
                 /\ \E outcome \in SaveOutcomes :
                      /\ disk' = SaveCheckpoint(
                             StreamingBoundaryState(inner_results'), outcome)
                      /\ saveFailed' = (saveFailed \/ outcome # "ok")
                      /\ saves' = Append(saves, StreamingBoundaryState(inner_results'))
                 /\ batch_results' = <<>>
            ELSE UNCHANGED <<disk, saveFailed, saves, inner_results, batch_results>>
    /\ page_num' = page_num + 1
    /\ pc' = "stream"
    /\ UNCHANGED <<docStatus, doc, config, interrupted, start_page, results, metadata,
                   total_pages, summary, loaded, invoked, runs>>
    /\ UNCHANGED <<freshVars, pathVars, twoVars, driverVars>>

\* a loop exit that forgets the unfinished batch
ExtendResults_DropsRemainder ==
    /\ pc = "flush"
    /\ results' = results \o inner_results
    /\ inner_results' = <<>>
    /\ batch_results' = <<>>
    /\ pc' = "finish"
    /\ UNCHANGED <<docStatus, doc, disk, config, interrupted, start_page, metadata,
                   total_pages, page_num, summary, loaded, invoked, runs,
                   saveFailed, saves>>
    /\ UNCHANGED <<freshVars, pathVars, twoVars, driverVars>>

\* after the loop: the function returns its results (with the unfinished
\* batch) and process_pdf extends its own list with them.
ExtendResults ==
    /\ pc = "flush"
    /\ results' = results \o inner_results \o batch_results
    /\ inner_results' = <<>>
    /\ batch_results' = <<>>
    /\ pc' = "finish"
    /\ UNCHANGED <<docStatus, doc, disk, config, interrupted, start_page, metadata,
                   total_pages, page_num, summary, loaded, invoked, runs,
                   saveFailed, saves>>
    /\ UNCHANGED <<freshVars, pathVars, twoVars, driverVars>>

\* a completion that unlinks the file only if this call wrote it
ClearOnCompletion_OwnCheckpointOnly ==
    /\ pc = "finish"
    /\ disk' = IF ~interrupted /\ (\E i \in 1..Len(saves) : saves[i] = disk)
               THEN ClearCheckpoint ELSE disk
    /\ pc' = "return"
    /\ UNCHANGED <<docStatus, doc, config, interrupted, memory, summary, loaded, invoked,
                   runs, saveFailed, saves>>
    /\ UNCHANGED <<freshVars, pathVars, twoVars, driverVars>>

\* process_pdf, "Clear checkpoint on successful completion".
ClearOnCompletion ==
    /\ pc = "finish"
    /\ disk' = IF ~interrupted THEN ClearCheckpoint ELSE disk
    /\ pc' = "return"
    /\ UNCHANGED <<docStatus, doc, config, interrupted, memory, summary, loaded, invoked,
                   runs, saveFailed, saves>>
    /\ UNCHANGED <<freshVars, pathVars, twoVars, driverVars>>

\* process_pdf, the return statement.
Return ==
    /\ pc = "return"
    /\ summary' = Summary
    /\ pc' = "done"
    /\ UNCHANGED <<docStatus, doc, disk, config, interrupted, memory, loaded, invoked,
                   runs, saveFailed, saves>>
    /\ UNCHANGED <<freshVars, pathVars, twoVars, driverVars>>

\* the process is killed during a run: everything in memory is lost, the
\* checkpoint file stays as it is.
Kill ==
    /\ Running
    /\ pc' = "idle"
    /\ config' = NoConfig
    /\ interrupted' = FALSE
    /\ summary' = NoSummary
    /\ loaded' = NoState
    /\ invoked' = <<>>
    /\ saveFailed' = FALSE
    /\ saves' = <<>>
    /\ ResetMemory
    /\ docStatus' = "ok"
    /\ UNCHANGED <<doc, disk, runs>>
    /\ UNCHANGED <<freshVars, pathVars, twoVars, driverVars>>

Next ==
    \/ Construct
    \/ SignalHandler
    \/ ProcessPdfBegin
    \/ StreamPages
    \/ LoopBody
    \/ BatchBoundary
    \/ ExtendResults
    \/ ClearOnCompletion
    \/ Return
    \/ Kill

Spec == Init /\ [][Next]_vars

\* a step of process_pdf after its start
RunStep ==
    \/ StreamPages
    \/ LoopBody
    \/ BatchBoundary
    \/ ExtendResults
    \/ ClearOnCompletion
    \/ Return

\* ------------------------------------------------------ checkpoint paths
\* A file name is a sequence of pieces; ".pdf" is the one piece the code
\* looks for.  Path.name is the last component of a path, so it holds no "/".
NamePieces == {"a", "b", ".pdf"}

Names == UNION {[1..n -> NamePieces] : n \in 1..MaxNameLen}

Directories == {"dir1", "dir2"}

\* a document path: its parent directory and its name
PdfPaths == [parent : Directories, name : Names]

\* str.replace(".pdf", ""): every occurrence is removed
RemovePdf(name) == SelectSeq(name, LAMBDA piece : piece # ".pdf")

\* str.replace("/", "_")
ReplaceSlash(name) ==
    [i \in 1..Len(name) |-> IF name[i] = "/" THEN "_" ELSE name[i]]

\* _get_checkpoint_path: checkpoint_dir / f"{safe_name}_checkpoint.pkl"
GetCheckpointPath(pdf_path) ==
    [parent |-> "checkpoint_dir",
     name   |-> ReplaceSlash(RemovePdf(pdf_path.name)) \o <<"_checkpoint.pkl">>]

PathInit ==
    /\ ProcessorInit
    /\ doc = <<>>
    /\ comparing = FALSE
    /\ NoComparison
    /\ NoDriver
    /\ pdf_paths \in [1..2 -> PdfPaths]
    /\ checkpoint_paths = <<>>

\* one processor asks for the checkpoint path of the next document
AskCheckpointPath ==
    /\ Len(checkpoint_paths) < Len(pdf_paths)
    /\ checkpoint_paths' =
           Append(checkpoint_paths,
                  GetCheckpointPath(pdf_paths[Len(checkpoint_paths) + 1]))
    /\ UNCHANGED <<docStatus, doc, disk, pc, config, interrupted, memory, summary,
                   loaded, invoked, runs, saveFailed, saves, freshVars, pdf_paths,
                   driverVars, twoVars>>

\* the path of a document is asked for again
AskAgain ==
    /\ Len(checkpoint_paths) = Len(pdf_paths)
    /\ \E i \in 1..Len(pdf_paths) :
         checkpoint_paths' =
             [checkpoint_paths EXCEPT ![i] = GetCheckpointPath(pdf_paths[i])]
    /\ UNCHANGED <<docStatus, doc, disk, pc, config, interrupted, memory, summary,
                   loaded, invoked, runs, saveFailed, saves, freshVars, pdf_paths,
                   driverVars, twoVars>>

PathNext ==
    \/ AskCheckpointPath
    \/ AskAgain

PathSpec == PathInit /\ [][PathNext]_vars

\* ------------------------------------------ the directory loop of ingest
\* ingest found MaxRuns documents and runs process_pdf_file on each with the
\* options of the command line.
DriverInit ==
    /\ ProcessorInit
    /\ doc = <<>>
    /\ comparing = FALSE
    /\ NoComparison
    /\ NoPaths
    /\ pdf_files = MaxRuns
    /\ file_idx = 0
    /\ calls = 0
    /\ success_count = 0
    /\ error_count = 0
    /\ interrupted_count = 0

\* a loop whose processors share the cancellation flag of the process
IngestFile_KeepsFlag ==
    /\ pc = "idle"
    /\ file_idx < pdf_files
    /\ calls' = calls + 1
    /\ \E d \in Documents : doc' = d
    /\ \E f \in {NoFile, Corrupt} : disk' = f
    /\ \E c \in Configs :
         /\ config # NoConfig => c = config
         /\ config' = c
    /\ \E mkdir \in {"ok", "raises"} :
         pc' = IF mkdir = "ok" THEN "ready" ELSE "raised"
    /\ interrupted' = interrupted
    /\ summary' = NoSummary
    /\ loaded' = NoState
    /\ invoked' = <<>>
    /\ saveFailed' = FALSE
    /\ saves' = <<>>
    /\ ResetMemory
    /\ docStatus' = "ok"
    /\ UNCHANGED <<runs, freshVars, pathVars, twoVars, pdf_files, file_idx, success_count,
                   error_count, interrupted_count>>

\* the head of the for loop and process_pdf_file up to the constructor: the
\* next document, a processor with the options of the command line (the
\* same for every document), an unset flag.  The checkpoint path of the
\* document holds no file or an unreadable one; mkdir of the constructor
\* may raise.
IngestFile ==
    /\ pc = "idle"
    /\ file_idx < pdf_files
    /\ calls' = calls + 1
    /\ \E d \in Documents : doc' = d
    /\ \E f \in {NoFile, Corrupt} : disk' = f
    /\ \E c \in Configs :
         /\ config # NoConfig => c = config
         /\ config' = c
    /\ \E mkdir \in {"ok", "raises"} :
         pc' = IF mkdir = "ok" THEN "ready" ELSE "raised"
    /\ interrupted' = FALSE
    /\ summary' = NoSummary
    /\ loaded' = NoState
    /\ invoked' = <<>>
    /\ saveFailed' = FALSE
    /\ saves' = <<>>
    /\ ResetMemory
    /\ docStatus' = "ok"
    /\ UNCHANGED <<runs, freshVars, pathVars, twoVars, pdf_files, file_idx, success_count,
                   error_count, interrupted_count>>

\* process_pdf_file, its last line: process_pdf on the new processor
CallProcessPdf == pc = "ready" /\ ProcessPdfBegin

\* process_pdf_file is over: the result is dropped and no document is the
\* current one.  The processor stays alive as the target of the installed
\* signal handler, so its flag is kept.
ForgetProcessor ==
    /\ doc' = <<>>
    /\ docStatus' = "ok"
    /\ disk' = NoFile
    /\ summary' = NoSummary
    /\ loaded' = NoState
    /\ invoked' = <<>>
    /\ saveFailed' = FALSE
    /\ saves' = <<>>
    /\ ResetMemory

\* a loop that is left at the first exception
CountResult_StopsAtError ==
    /\ pc \in {"done", "raised"}
    /\ file_idx < pdf_files
    /\ IF pc = "raised"
       THEN /\ error_count' = error_count + 1
            /\ file_idx' = pdf_files
            /\ UNCHANGED <<success_count, interrupted_count>>
       ELSE /\ file_idx' = file_idx + 1
            /\ IF summary.completed
               THEN /\ success_count' = success_count + 1
                    /\ UNCHANGED <<error_count, interrupted_count>>
               ELSE /\ interrupted_count' = interrupted_count + 1
                    /\ UNCHANGED <<success_count, error_count>>
    /\ pc' = "idle"
    /\ ForgetProcessor
    /\ UNCHANGED <<config, interrupted, runs, freshVars, pathVars, twoVars, pdf_files, calls>>

\* the rest of the loop body: the result or the exception is counted and
\* the loop goes on to the next document.
CountResult ==
    /\ pc \in {"done", "raised"}
    /\ file_idx < pdf_files
    /\ IF pc = "raised"
       THEN /\ error_count' = error_count + 1
            /\ UNCHANGED <<success_count, interrupted_count>>
       ELSE IF summary.completed
       THEN /\ success_count' = success_count + 1
            /\ UNCHANGED <<error_count, interrupted_count>>
       ELSE /\ interrupted_count' = interrupted_count + 1
            /\ UNCHANGED <<success_count, error_count>>
    /\ file_idx' = file_idx + 1
    /\ pc' = "idle"
    /\ ForgetProcessor
    /\ UNCHANGED <<config, interrupted, runs, freshVars, pathVars, twoVars, pdf_files, calls>>

DriverNext ==
    \/ IngestFile
    \/ CallProcessPdf
    \/ SignalHandler
    \/ StreamPages
    \/ LoopBody
    \/ BatchBoundary
    \/ ExtendResults
    \/ ClearOnCompletion
    \/ Return
    \/ CountResult

DriverSpec == DriverInit /\ [][DriverNext]_vars

\* the for loop of ingest is over
DriverDone == pc = "idle" /\ file_idx = pdf_files

\* ------------------------------------------- fresh runs over one document
\* Processors are constructed with resume=false only, and the summary of a
\* completed run is kept for the comparison with later runs.
FreshInit ==
    /\ ProcessorInit
    /\ comparing = TRUE
    /\ NoComparison
    /\ NoPaths
    /\ NoDriver

FreshConstruct == Construct /\ ~config'.resume

FreshNext ==
    \/ FreshConstruct
    \/ SignalHandler
    \/ ProcessPdfBegin
    \/ StreamPages
    \/ LoopBody
    \/ BatchBoundary
    \/ ExtendResults
    \/ ClearOnCompletion
    \/ Return
    \/ Kill

FreshSpec == FreshInit /\ [][FreshNext]_vars

\* ------------------------------------ one document, resumed until complete
\* Every processor is constructed with resume=true, force=false and the
\* configuration of the processor before it; no process is killed.
ResumeConstruct ==
    /\ Construct
    /\ config'.resume /\ ~config'.force
    /\ config # NoConfig => config' = config

ResumeNext ==
    \/ ResumeConstruct
    \/ SignalHandler
    \/ ProcessPdfBegin
    \/ StreamPages
    \/ LoopBody
    \/ BatchBoundary
    \/ ExtendResults
    \/ ClearOnCompletion
    \/ Return

ResumeSpec == Init /\ [][ResumeNext]_vars

\* the same, with the interpreter never ceasing to run the thread that
\* called process_pdf
LiveSpec == Init /\ [][ResumeNext]_vars /\ WF_vars(RunStep)

\* ------------------------------------- two processors over one document
\* Two PDFProcessor objects of one process, each with one process_pdf call
\* on the same document path.  The variables pc, config, ... hold the
\* processor whose call the interpreter is running; other holds the second
\* one.  The checkpoint file is shared; the signal handler installed is the
\* bound method of the processor constructed last (signal.signal in
\* __init__ replaces the handler of the processor before it).  The document
\* is readable, its pages extract and the file system does not fail, so
\* that what one call finds on disk is the doing of the two calls alone.

\* the processor of pc, config, ... as a record
ThisProcessor ==
    [pc |-> pc, config |-> config, interrupted |-> interrupted,
     docStatus |-> docStatus, start_page |-> start_page, results |-> results,
     metadata |-> metadata, total_pages |-> total_pages, page_num |-> page_num,
     inner_results |-> inner_results, batch_results |-> batch_results,
     summary |-> summary, loaded |-> loaded, invoked |-> invoked,
     saveFailed |-> saveFailed, saves |-> saves]

\* a processor after __init__
NewProcessor(c) ==
    [pc |-> "ready", config |-> c, interrupted |-> FALSE,
     docStatus |-> "ok", start_page |-> 0, results |-> <<>>,
     metadata |-> {}, total_pages |-> 0, page_num |-> 0,
     inner_results |-> <<>>, batch_results |-> <<>>,
     summary |-> NoSummary, loaded |-> NoState, invoked |-> <<>>,
     saveFailed |-> FALSE, saves |-> <<>>]

TwoInit ==
    /\ doc \in Documents
    /\ \A i \in 1..Len(doc) : doc[i] = "text"
    /\ disk = NoFile
    /\ runs = 0
    /\ \E c \in Configs :
         /\ other = NewProcessor(c)
         /\ config = c
    /\ pc = "ready"
    /\ interrupted = FALSE
    /\ docStatus = "ok"
    /\ start_page = 0
    /\ results = <<>>
    /\ metadata = {}
    /\ total_pages = 0
    /\ page_num = 0
    /\ inner_results = <<>>
    /\ batch_results = <<>>
    /\ summary = NoSummary
    /\ loaded = NoState
    /\ invoked = <<>>
    /\ saveFailed = FALSE
    /\ saves = <<>>
    /\ newest \in BOOLEAN
    /\ comparing = FALSE
    /\ NoComparison
    /\ NoPaths
    /\ NoDriver

\* the interpreter goes over to the call of the second processor
Switch ==
    /\ other # NoOther
    /\ other' = ThisProcessor
    /\ pc' = other.pc
    /\ config' = other.config
    /\ interrupted' = other.interrupted
    /\ docStatus' = other.docStatus
    /\ start_page' = other.start_page
    /\ results' = other.results
    /\ metadata' = other.metadata
    /\ total_pages' = other.total_pages
    /\ page_num' = other.page_num
    /\ inner_results' = other.inner_results
    /\ batch_results' = other.batch_results
    /\ summary' = other.summary
    /\ loaded' = other.loaded
    /\ invoked' = other.invoked
    /\ saveFailed' = other.saveFailed
    /\ saves' = other.saves
    /\ newest' = ~newest
    /\ UNCHANGED <<doc, disk, runs, freshVars, pathVars, driverVars>>

\* SIGINT or SIGTERM: the handler installed runs, _signal_handler of the
\* processor constructed last
DeliverSignal ==
    /\ IF newest
       THEN /\ ~interrupted
            /\ interrupted' = TRUE
            /\ UNCHANGED other
       ELSE /\ ~other.interrupted
            /\ other' = [other EXCEPT !.interrupted = TRUE]
            /\ UNCHANGED interrupted
    /\ UNCHANGED <<docStatus, doc, disk, pc, config, memory, summary, loaded, invoked,
                   runs, saveFailed, saves, newest, freshVars, pathVars, driverVars>>

\* process_pdf is called on a readable document
TwoCall == CallProcessPdf /\ docStatus' = "ok"

\* the loop body and the batch boundary with saves that succeed
TwoLoopBody == LoopBody /\ ~saveFailed'

TwoBatchBoundary == BatchBoundary /\ ~saveFailed'

TwoNext ==
    \/ TwoCall
    \/ StreamPages
    \/ TwoLoopBody
    \/ TwoBatchBoundary
    \/ ExtendResults
    \/ ClearOnCompletion
    \/ Return
    \/ DeliverSignal
    \/ Switch

TwoSpec == TwoInit /\ [][TwoNext]_vars

\* ------------------------------------------------------- derived notions

\* process_pdf has returned a summary.
Returned == pc = "done"

\* the run now returning had no interrupt: the flag is still unset.
Uninterrupted == ~interrupted

\* the 0-based page indices first .. last-1, in order.
PageRange(first, last) ==
    [i \in 1..(IF last > first THEN last - first ELSE 0) |-> first + i - 1]

\* a stored checkpoint whose results are as many as its processed_pages.
Consistent(state) ==
    /\ state # NoState
    /\ Len(state.results) = state.processed_pages
    /\ state.processed_pages <= Len(doc)

\* what _process_page returns for a page that extracts without error.
OkResult(p) == [page_number |-> p + 1, error |-> FALSE]

\* the page numbers of a sequence of results.
PageNumbers(res) == {res[i].page_number : i \in 1..Len(res)}

\* the step in which process_pdf starts streaming.
BeginStep == pc \in {"ready", "done", "raised"} /\ pc' = "stream"

\* --------------------------------------------------------------- claims

\* C1: a fresh run (no checkpoint loaded) that no interrupt reaches returns
\* completed=true, total_pages = processed_pages = N, exactly N results and
\* results[i].page_number = i+1 for every page, for every N >= 0 and every
\* batch size.
C1_FreshRunCompletes ==
    (Returned /\ loaded = NoState /\ Uninterrupted) =>
        /\ summary.completed
        /\ summary.total_pages = Len(doc)
        /\ summary.processed_pages = Len(doc)
        /\ Len(summary.results) = Len(doc)
        /\ \A i \in 1..Len(doc) : summary.results[i].page_number = i

C1_Witness ==
    /\ Returned /\ loaded = NoState /\ Uninterrupted
    /\ Len(doc) = 3 /\ config.batch_size = 2 /\ config.workers = 1

C5_ResumeCompletes ==
    (Returned /\ Consistent(loaded) /\ Uninterrupted) =>
        /\ summary.completed
        /\ summary.total_pages = Len(doc)
        /\ summary.processed_pages = Len(doc)
        /\ SubSeq(summary.results, 1, loaded.processed_pages) = loaded.results
        /\ invoked = PageRange(loaded.processed_pages, Len(doc))

C5_Witness ==
    /\ Returned /\ Consistent(loaded) /\ Uninterrupted
    /\ config.resume /\ ~config.force
    /\ loaded.processed_pages = 1 /\ Len(doc) = 3

\* C6: a stored checkpoint is loaded if and only if resume=true and
\* force=false; with force=true (whatever resume is) or resume=false the run
\* starts at offset 0 with empty results and reprocesses the pages from the
\* first one, every page when it completes, so the returned results are
\* exactly those this run produced and none of the checkpoint's.
C6_LoadOnlyOnResume ==
    /\ [][BeginStep =>
            /\ (loaded' # NoState) <=>
                   (config.resume /\ ~config.force /\ IsState(disk))
            /\ ~(config.resume /\ ~config.force) =>
                   (start_page' = 0 /\ page_num' = 0 /\ results' = <<>>)]_vars
    /\ []((Returned /\ ~(config.resume /\ ~config.force)) =>
            /\ summary.results =
                   [i \in 1..Len(invoked) |-> ProcessPage(invoked[i])]
            /\ invoked = PageRange(0, Len(invoked))
            /\ summary.completed => invoked = PageRange(0, Len(doc)))

\* a forced run that stopped after one page while the checkpoint of an
\* earlier run (two pages) is still on disk
C6_Witness ==
    /\ Returned /\ config.force /\ config.resume
    /\ Len(invoked) = 1 /\ Len(summary.results) = 1
    /\ IsState(disk) /\ disk.processed_pages = 2

\* C8: whatever pages make the page producer raise, an uninterrupted run
\* (started fresh, or from a stored checkpoint with as many results as
\* processed pages) returns completed=true with exactly N results in page
\* order; the result of a failing page carries the error field and its page
\* number, and every other result is what the page gives in a document
\* where no page fails.
C8_PageFailuresIsolated ==
    (Returned /\ Uninterrupted /\ (loaded = NoState \/ Consistent(loaded))) =>
        /\ summary.completed
        /\ Len(summary.results) = Len(doc)
        /\ \A i \in 1..Len(doc) :
             /\ summary.results[i].page_number = i
             /\ doc[i] = "raises" => summary.results[i].error
             /\ doc[i] # "raises" => summary.results[i] = OkResult(i - 1)

C8_Witness ==
    /\ Returned /\ Uninterrupted /\ loaded = NoState
    /\ doc = <<"text", "raises", "text">>

\* C9: when the document is missing or cannot be opened, process_pdf raises:
\* no summary is returned, no checkpoint is written and the checkpoint file
\* on disk is left as it was.
C9_OpenFailureIsFatal ==
    /\ [](docStatus # "ok" => (pc = "raised" /\ summary = NoSummary))
    /\ [][docStatus' # "ok" => disk' = disk]_vars

C9_Witness ==
    /\ pc = "raised" /\ docStatus = "unreadable"
    /\ config.resume /\ ~config.force /\ IsState(disk)

\* the results the run holds so far: those carried over from the loaded
\* checkpoint and those produced since.
ObtainedResults == results \o inner_results \o batch_results

\* the results of the checkpoint on disk, none without a loadable file.
DiskResults == IF IsState(disk) THEN disk.results ELSE <<>>

\* C2: at every point of a run whose checkpoint writes succeed, up to the
\* step that clears the checkpoint, the results obtained so far (carried
\* over and new) that are missing from the checkpoint on disk number at most
\* batch_size.
C2_AtMostOneBatchLost ==
    (pc \in {"stream", "body", "boundary", "flush", "finish"} /\ ~saveFailed) =>
        Cardinality(PageNumbers(ObtainedResults) \ PageNumbers(DiskResults))
            <= config.batch_size

\* C3: after a run that returns completed=false, whenever the interrupt
\* arrived, a checkpoint file is on disk and _load_checkpoint returns a
\* state for it.
C3_CheckpointAfterInterruption ==
    (Returned /\ ~summary.completed /\ ~saveFailed) =>
        (disk # NoFile /\ LoadCheckpoint # NoState)

\* C7: when process_pdf returns completed=false, the summary's
\* processed_pages is the processed_pages of the checkpoint last persisted,
\* and that checkpoint is still on disk.
C7_SummaryCountIsCheckpointCount ==
    (Returned /\ ~summary.completed /\ ~saveFailed) =>
        (IsState(disk) /\ summary.processed_pages = disk.processed_pages)

\* C10: every CheckpointState the processor persists, at a batch boundary or
\* on interruption, in a fresh or a resumed run, has as many results as its
\* processed_pages.
C10_ResultsMatchProcessedPages ==
    IsState(disk) => Len(disk.results) = disk.processed_pages

\* the results this run's _process_page calls produced, in call order.
ProducedResults == [i \in 1..Len(invoked) |-> ProcessPage(invoked[i])]

\* what an uninterrupted run returns when it starts from state (a loaded
\* checkpoint or NoState): the start values, then one result for each page
\* from the start offset to the last.
ExpectedSummary(state) ==
    LET rest == PageRange(StartPage(state), Len(doc))
        res  == StartResults(state) \o [i \in 1..Len(rest) |-> ProcessPage(rest[i])]
    IN [metadata |-> StartMetadata(state), total_pages |-> Len(doc),
        processed_pages |-> Len(res), results |-> res, completed |-> TRUE]

\* C11: every CheckpointState the processor persists has
\* 0 <= processed_pages <= total_pages, total_pages being the page count
\* probed in that run.
C11_ProcessedPagesWithinTotal ==
    \A i \in 1..Len(saves) :
        /\ saves[i].total_pages = total_pages
        /\ 0 <= saves[i].processed_pages
        /\ saves[i].processed_pages <= saves[i].total_pages

\* a resumed run that persisted a checkpoint at the last page
C11_Witness ==
    /\ loaded # NoState /\ Len(saves) > 0
    /\ saves[Len(saves)].processed_pages = Len(doc) /\ Len(doc) = 3

\* C13: a _save_checkpoint that fails, at a batch boundary or on
\* interruption, raises nothing to the caller (process_pdf raises only when
\* the document cannot be opened) and the run goes on: an uninterrupted run
\* returns the summary fixed by the document and the start state alone,
\* completed=true with all N results, the same whether saves failed or not.
C13_SaveFailureSwallowed ==
    /\ pc = "raised" => docStatus # "ok"
    /\ (Returned /\ Uninterrupted) =>
          /\ summary = ExpectedSummary(loaded)
          /\ (loaded = NoState \/ Consistent(loaded)) =>
                 Len(summary.results) = Len(doc)

C13_Witness ==
    /\ Returned /\ Uninterrupted /\ saveFailed
    /\ Len(saves) = 2 /\ Len(doc) = 3

\* C14: with resume=true and force=false a missing checkpoint file and an
\* unreadable one are both treated as absent: _load_checkpoint gives no
\* state, nothing is raised, and the run is a fresh run: offset 0, empty
\* results, fresh metadata, and it returns exactly the results it produced
\* from the first page on.
C14_UnreadableCheckpointIsAbsent ==
    /\ [][(BeginStep /\ config.resume /\ ~config.force /\ ~IsState(disk)) =>
            /\ loaded' = NoState
            /\ start_page' = 0 /\ page_num' = 0
            /\ results' = <<>>
            /\ metadata' = FreshMetadata]_vars
    /\ [][(pc \in {"ready", "done", "raised"} /\ pc' = "raised") =>
            docStatus' # "ok"]_vars
    /\ []((Returned /\ config.resume /\ ~config.force /\ loaded = NoState) =>
            /\ summary.results = ProducedResults
            /\ invoked = PageRange(0, Len(invoked))
            /\ Uninterrupted => summary = ExpectedSummary(NoState))

\* a resuming run that found an unreadable file and started at page 0
C14_Witness ==
    /\ pc = "body" /\ page_num = 0 /\ disk = Corrupt
    /\ config.resume /\ ~config.force /\ loaded = NoState

\* the pages of this run whose loop body, boundary test included, is over.
PagesDone == IF pc = "boundary" THEN Len(invoked) - 1 ELSE Len(invoked)

\* the j-th boundary checkpoint of a run, written without reference to the
\* worker mode: j batches after the start offset.
BoundaryCheckpoint(j) ==
    CheckpointState(total_pages, start_page + j * config.batch_size, j,
                    SubSeq(ProducedResults, 1, j * config.batch_size),
                    CheckpointMetadata)

\* the checkpoint of an interruption, written without reference to the
\* worker mode: everything this run produced.
InterruptCheckpoint ==
    CheckpointState(total_pages, start_page + Len(invoked),
                    FloorDiv(Len(invoked), config.batch_size),
                    ProducedResults, CheckpointMetadata)

\* C17: a run with workers > 1 and a run with workers = 1 persist the same
\* sequence of checkpoints and return the same summary: in both modes the
\* states passed to _save_checkpoint and the summary are the same function
\* of the document, the loaded checkpoint, batch_size, the pages processed
\* before the interrupt and whether the loop saw the flag.
C17_WorkerModesAgree ==
    (Running \/ Returned) =>
        LET b == FloorDiv(PagesDone, config.batch_size)
        IN /\ Len(saves) \in {b, b + 1}
           /\ \A j \in 1..b : saves[j] = BoundaryCheckpoint(j)
           /\ Len(saves) = b + 1 =>
                 /\ saves[b + 1] = InterruptCheckpoint
                 /\ pc \in {"flush", "finish", "return", "done"}
           /\ Returned =>
                 /\ summary.results = StartResults(loaded) \o ProducedResults
                 /\ summary.processed_pages = Len(summary.results)
                 /\ summary.total_pages = Len(doc)
                 /\ summary.metadata = StartMetadata(loaded)

\* a resumed workers > 1 run whose loop saw the flag after a boundary
C17_Witness ==
    /\ Returned /\ config.workers > 1 /\ loaded # NoState
    /\ Len(saves) = 2 /\ config.batch_size = 1

\* C18: when the flag is set during a run after p pages were handled, the
\* run persists before it returns a checkpoint with processed_pages = p
\* whose results include those of the unfinished batch.
C18_InterruptionPersistsCheckpoint ==
    (Returned /\ ~summary.completed /\ Len(invoked) >= 1
              /\ start_page + Len(invoked) < total_pages) =>
        /\ Len(saves) > 0
        /\ saves[Len(saves)].processed_pages = start_page + Len(invoked)
        /\ PageNumbers(ProducedResults) \subseteq
               PageNumbers(saves[Len(saves)].results)

\* C19: in a fresh run that no interrupt has reached, checkpoints are
\* persisted exactly after pages B, 2B, ..., the j-th with
\* processed_pages = j*B and the first j*B page results, floor(N/B) of them
\* by the time the run returns; the trailing results reach the returned
\* results without a checkpoint write.
C19_CheckpointsAtBatchBoundaries ==
    ((Running \/ Returned) /\ loaded = NoState /\ Uninterrupted) =>
        /\ Len(saves) = FloorDiv(PagesDone, config.batch_size)
        /\ \A j \in 1..Len(saves) :
             /\ saves[j].processed_pages = j * config.batch_size
             /\ saves[j].results =
                    [i \in 1..(j * config.batch_size) |-> ProcessPage(i - 1)]
        /\ Returned =>
             /\ Len(saves) = FloorDiv(Len(doc), config.batch_size)
             /\ Len(summary.results) = Len(doc)

\* three pages, batch size two: one checkpoint, one trailing result
C19_Witness ==
    /\ Returned /\ loaded = NoState /\ Uninterrupted
    /\ Len(doc) = 3 /\ config.batch_size = 2 /\ Len(saves) = 1

\* C20: once the flag is set during a run no further page is given to the
\* page producer (a page past the loop's flag test counts as being
\* processed), the loop is left at its next test and the run returns
\* completed=false.
C20_NoPageAfterCancellation ==
    /\ [][(interrupted /\ Running /\ pc' # "idle") => invoked' = invoked]_vars
    /\ [][(interrupted /\ pc \in {"stream", "body"} /\ pc' \notin {pc, "idle"}) =>
            pc' = "flush"]_vars
    /\ [][(interrupted /\ pc = "return" /\ pc' = "done") =>
            ~summary'.completed]_vars

\* a run stopped by the flag after its first page of three
C20_Witness ==
    /\ Returned /\ ~summary.completed
    /\ Len(invoked) = 1 /\ Len(doc) = 3 /\ loaded = NoState

\* C15: a completed fresh run (resume=false) returns the results that the
\* completed fresh run before it returned over the same document, whatever
\* the checkpoint file held when either of them started (and whatever
\* batch_size, workers and force the two processors were given).
C15_FreshRunsAgree ==
    (Returned /\ summary.completed /\ ~config.resume /\ lastFresh # NoSummary) =>
        summary.results = lastFresh.results

\* the second of two fresh runs found a checkpoint of an interrupted run
C15_Witness ==
    /\ Returned /\ summary.completed /\ ~config.resume
    /\ lastFresh # NoSummary
    /\ diskBefore = "state"
    /\ Len(doc) = 3

\* C12: _get_checkpoint_path gives a document the same location every time
\* it is asked, and two different document paths, two files of the same
\* name in different directories included, never get the same location.
C12_CheckpointPathsDistinct ==
    /\ \A i \in 1..Len(checkpoint_paths) :
         checkpoint_paths[i] = GetCheckpointPath(pdf_paths[i])
    /\ (Len(checkpoint_paths) = 2 /\ pdf_paths[1] # pdf_paths[2]) =>
           checkpoint_paths[1] # checkpoint_paths[2]

\* C16: the directory loop calls process_pdf_file on every document of the
\* list, whatever the runs of earlier documents raised, and when it is over
\* success_count + interrupted_count + error_count is the number of
\* documents.
C16_EveryDocumentIsRun ==
    /\ success_count + interrupted_count + error_count = file_idx
    /\ calls = IF pc = "idle" THEN file_idx ELSE file_idx + 1
    /\ (pc = "idle" /\ file_idx < pdf_files) => ENABLED IngestFile
    /\ DriverDone =>
          /\ calls = pdf_files
          /\ success_count + interrupted_count + error_count = pdf_files

\* three documents, two runs raised: a run was started after an exception
C16_Witness ==
    /\ DriverDone /\ pdf_files = 3
    /\ error_count = 2 /\ success_count = 1

\* the results of one uninterrupted fresh run over the document
AllPageResults == [i \in 1..Len(doc) |-> ProcessPage(i - 1)]

\* C21: a document that is interrupted any number of times and re-invoked
\* with resume=true each time ends, once a run completes, with the results
\* of one uninterrupted fresh run: one result per page, in order, and
\* processed_pages = total_pages = N.
C21_ResumeChainEqualsFreshRun ==
    (Returned /\ summary.completed) =>
        /\ summary.results = AllPageResults
        /\ summary.processed_pages = Len(doc)
        /\ summary.total_pages = Len(doc)

\* C23: each checkpoint written for the document, at a boundary or on
\* interruption, in the first run or in a resumed run, has a
\* checkpoint_batch not smaller than that of the checkpoint it overwrites.
C23_CheckpointBatchMonotonic ==
    [][(IsState(disk) /\ IsState(disk')) =>
          disk'.checkpoint_batch >= disk.checkpoint_batch]_vars

\* C22: after a run with force=true has returned, completed or interrupted,
\* a checkpoint file that is present was written by that run: the
\* checkpoint from before the forced run is not left in place.
C22_ForceDiscardsOldCheckpoint ==
    (Returned /\ config.force /\ ~saveFailed /\ IsState(disk)) =>
        \E i \in 1..Len(saves) : saves[i] = disk

\* C24: the metadata of a run never changes: every checkpoint of the run,
\* the metadata a resumed run restores and the metadata in the summary all
\* equal the metadata created when the document was first started.
C24_MetadataImmutable ==
    (Running \/ Returned) =>
        /\ metadata = FreshMetadata
        /\ \A i \in 1..Len(saves) : saves[i].metadata = FreshMetadata
        /\ Returned => summary.metadata = FreshMetadata

\* C26: in every summary process_pdf returns, completed=true holds exactly
\* when processed_pages = total_pages.
C26_CompletedIffAllPagesProcessed ==
    Returned =>
        (summary.completed <=> summary.processed_pages = summary.total_pages)

\* C25: the flag of a processor is false at construction, is set by the
\* signal handler only and is never reset while the processor exists; so a
\* process_pdf call made on a processor whose flag is set gives no page to
\* _process_page and returns completed=false.
C25_FlagIsNeverReset ==
    /\ [][(pc # "ready" /\ pc' = "ready") => ~interrupted']_vars
    /\ [][(~interrupted /\ interrupted') => SignalHandler]_vars
    /\ [][(interrupted /\ ~interrupted') => pc' \in {"ready", "idle"}]_vars
    /\ [][(interrupted /\ pc \in {"done", "raised"} /\ pc' = "stream") =>
             (interrupted' /\ invoked' = <<>>)]_vars
    /\ [][(interrupted /\ Running) => (invoked' = invoked \/ pc' = "idle")]_vars
    /\ [][(interrupted /\ pc = "return" /\ pc' = "done") =>
             (~summary'.completed /\ invoked' = invoked)]_vars

\* a call on a flagged processor returned without a page of three
C25_Witness ==
    /\ Returned /\ interrupted /\ runs >= 2
    /\ invoked = <<>> /\ Len(doc) = 3 /\ loaded = NoState
    /\ ~summary.completed /\ summary.results = <<>>

\* C27: process_pdf terminates (a call that has not raised returns), and
\* the pages the stream yields are start_page, start_page + 1, ... in
\* strictly increasing order, each below total_pages and none twice.
C27_RunTerminates ==
    /\ Running ~> Returned
    /\ [][(pc = "stream" /\ pc' = "body") =>
             /\ start_page <= page_num' /\ page_num' < total_pages
             /\ \A i \in 1..Len(invoked) : invoked[i] < page_num'
             /\ page_num' = start_page + Len(invoked)]_vars
    /\ [][Running => (page_num' = page_num \/ page_num' = page_num + 1)]_vars

\* a run over three pages returned after the stream yielded all of them
C27_Witness ==
    /\ Returned /\ invoked = <<0, 1, 2>> /\ Len(doc) = 3

\* C30: in a directory run an interrupt during document k stops document k
\* only: the loop counts it as interrupted and goes on, every later document
\* gets a new processor with an unset flag, and a run that no further
\* interrupt reaches processes its document to the last page.
C30_InterruptStopsOneDocument ==
    /\ [][(pc = "idle" /\ pc' = "ready") => ~interrupted']_vars
    /\ [][(pc = "done" /\ ~summary.completed /\ pc' = "idle") =>
             /\ interrupted_count' = interrupted_count + 1
             /\ file_idx' = file_idx + 1
             /\ success_count' = success_count /\ error_count' = error_count]_vars
    /\ []((pc = "idle" /\ interrupted_count > 0 /\ file_idx < pdf_files) =>
             ENABLED IngestFile)
    /\ []((Returned /\ Uninterrupted) =>
             /\ summary.completed
             /\ start_page + Len(invoked) = Len(doc))

\* a document of three pages completed after an earlier one was interrupted
C30_Witness ==
    /\ Returned /\ summary.completed /\ interrupted_count >= 1
    /\ invoked = <<0, 1, 2>>

\* both calls of the two processors have returned
BothReturned == pc = "done" /\ other # NoOther /\ other.pc = "done"

\* a signal was delivered in this step
Delivered ==
    /\ newest' = newest
    /\ \/ ~interrupted /\ interrupted'
       \/ other # NoOther /\ ~other.interrupted /\ other'.interrupted

C29_SignalReachesRunningProcessor ==
    [][(Delivered /\ Running /\ other.pc \in {"ready", "done"}) =>
          interrupted']_vars

====
